---- MODULE Spec2Model ----
(***************************************************************************)
(* State-machine model of the PPO agent of skrl (JAX backend),             *)
(* skrl/agents/jax/ppo/ppo.py: construction, init, the interaction cycle   *)
(* pre_interaction -> act -> record_transition -> post_interaction, and    *)
(* the multi-epoch minibatch loop of _update; the merging of the cfg       *)
(* argument into PPO_DEFAULT_CONFIG; the advantage estimators             *)
(* compute_gae and _compute_gae; and the loss functions _update_policy     *)
(* and _update_value.                                                      *)
(*                                                                         *)
(* Conventions.  None is modelled by 0 for values that are otherwise       *)
(* positive tags, and by the string "None" for class-valued settings.      *)
(* A mean or a quotient of numbers is kept as the pair <<numerator,        *)
(* denominator>>.  The outputs of the external models are opaque: the      *)
(* k-th act call returns the action tag k and the log_prob tag k.          *)
(***************************************************************************)
EXTENDS Integers, Sequences, FiniteSets, TLC

\* ---------------------------------------------------------------- bounds
MaxRollouts == 2          \* cfg["rollouts"] ranges over 1..MaxRollouts
MaxLearningStarts == 2    \* cfg["learning_starts"] ranges over 0..MaxLearningStarts
MaxTimestep == 2          \* the timestep argument ranges over 0..MaxTimestep
MaxRandomTimesteps == 1   \* cfg["random_timesteps"] ranges over 0..MaxRandomTimesteps
MaxEpochs == 2            \* cfg["learning_epochs"] ranges over 1..MaxEpochs
MaxMiniBatches == 2       \* cfg["mini_batches"] ranges over 1..MaxMiniBatches
MaxSecondary == 1         \* number of secondary memories ranges over 0..MaxSecondary
MaxInteractions == 4      \* interaction cycles per behaviour
MaxAgents == 3            \* agents constructed one after the other in a process
MaxLen == 3               \* length of the trajectory handed to compute_gae
MaxSamples == 2           \* samples of the minibatch handed to _update_policy and _update_value

\* ------------------------------------------------- values of the inputs
None == 0
Schedulers == {"None", "KLAdaptiveRL", "Plain"}
KLValues == {0, 2}        \* KL divergence of a minibatch, in units of the threshold
KLThresholds == {0, 1}    \* cfg["kl_threshold"]: 0 disables early stopping
\* <<policy_loss, value_loss>> that the loss computations return for a minibatch
MinibatchLosses == {<<1, 3>>, <<2, 5>>}
RawReward == 1
\* inputs of compute_gae; the coefficients are whole numbers so that the
\* arithmetic of the backward pass is exact
RewardVals == {0, 1}
ValueVals == {0, 2}
BootstrapVals == {1, 3}
Discounts == {1, 2}
Lambdas == {0, 1}
\* arguments of _update_policy and _update_value; ratios, ratio_clip and the
\* policy loss are in thousandths (One stands for 1.0)
One == 1000
LogProbVals == {-2, -1, 0}
AdvantageVals == {-1, 2}
RatioClips == {0, 200}
Perturbations == {-1, 0, 1}
PredictedVals == {-1, 0, 2}
OldValueVals == {0, 1}
ReturnVals == {0, 3}
ValueLossScales == {1, 2}
ValueClips == {0, 1}

VARIABLES
    default_config,         \* the module-level dictionary PPO_DEFAULT_CONFIG
    cfg_arg,                \* the cfg argument the agent was constructed with
    agents,                 \* number of agents constructed so far
    gae_in,                 \* arguments of a call of the advantage estimator
    gae_out,                \* what compute_gae returned for gae_in
    gae_jit,                \* what _compute_gae returned (or raised) for gae_in
    policy_in,              \* arguments of the next call of _update_policy
    policy_calls,           \* the calls of _update_policy made: arguments and results
    value_in,               \* arguments of a call of _update_value
    value_out,              \* what _update_value computed for value_in
    cfg,                    \* self.cfg, the merged configuration
    policy,                 \* self.policy is not None
    value,                  \* self.value is not None
    scheduler,              \* self.scheduler: "None" or "KLAdaptiveRL"
    optimizers,             \* policy_optimizer and value_optimizer exist
    memories,               \* <<self.memory>> \o self.secondary_memories; <<>> if memory is None
    mode,                   \* last set_mode argument
    rollout,                \* self._rollout
    current_log_prob,       \* self._current_log_prob
    current_next_states,    \* self._current_next_states
    pc,                     \* position of the single thread of control
    error,                  \* exception that ended the run, or "none"
    timestep,               \* timestep argument of the current interaction
    actions,                \* what act returned to the trainer: <<actions, log_prob>>
    epoch,                  \* _update: loop variable epoch
    sampled_batches,        \* _update: sampled_batches
    batch,                  \* _update: index into sampled_batches of the next minibatch
    kl_divergences,         \* _update: kl_divergences
    cumulative,             \* _update: cumulative_{policy,value,entropy}_loss
    trace,                  \* calls made to collaborators by the current post_interaction
    since_update            \* post_interaction calls since the previous _update (or init)

vars == <<default_config, cfg_arg, agents, gae_in, gae_out, gae_jit,
          policy_in, policy_calls, value_in, value_out, cfg, policy, value, scheduler, optimizers, memories, mode, rollout,
          current_log_prob, current_next_states, pc, error, timestep, actions,
          epoch, sampled_batches, batch, kl_divergences, cumulative, trace, since_update>>

gaeVars == <<gae_in, gae_out, gae_jit>>
lossVars == <<policy_in, policy_calls, value_in, value_out>>
agentVars == <<default_config, cfg_arg, agents, gaeVars, lossVars, cfg, policy, value, scheduler, optimizers>>
updateVars == <<epoch, sampled_batches, batch, kl_divergences, cumulative>>

\* --------------------------------------------------------------- helpers
RECURSIVE SumSeq(_)
SumSeq(s) == IF s = <<>> THEN 0 ELSE Head(s) + SumSeq(Tail(s))

Last(s) == s[Len(s)]

ZeroLosses == [policy |-> 0, value |-> 0, entropy |-> 0]

\* ------------------------------------------------- external collaborators
\* policy.act on the k-th act call: (actions, log_prob) tags
PolicyAct(k) == <<k, k>>
\* policy.random_act on the k-th act call: actions tag, no log_prob
PolicyRandomAct(k) == <<k, None>>
\* value.act followed by the inverse value preprocessor, on states s
ValueAct(s) == s + 10
\* a configured rewards shaper: Callable(reward, timestep, timesteps) -> reward
RewardsShaper(r, t) == r + t + 1
\* policy.get_entropy(role="policy").mean()
PolicyEntropy == 1
\* memory.sample_all(names, mini_batches): the sequence of minibatches
SampleAll(mini_batches) == [b \in 1..mini_batches |-> b]
\* np.mean of a list, as <<sum, count>>
Mean(s) == <<SumSeq(s), Len(s)>>

\* ----------------------------------------------------- advantage estimator
\* no call of the estimator, no result yet
NoGaeInput == [rewards |-> <<>>]
NoResult == [status |-> "none"]
NoGaeInputs == {NoGaeInput}

\* the argument tuples of compute_gae, trajectories of length 1..MaxLen
GaeInputs ==
    UNION {[rewards : [1..T -> RewardVals],
            dones : [1..T -> BOOLEAN],
            values : [1..T -> ValueVals],
            next_values : BootstrapVals,
            discount_factor : Discounts,
            lambda_coefficient : Lambdas] : T \in 1..MaxLen}

\* variant: the bootstrap value is the next value at every index
GaeNextValues_Bootstrap(i, memory_size, values, next_values) == next_values

\* next_values = values[i + 1] if i < memory_size - 1 else next_values
\* (indices from 1; next_values is the variable the loop reassigns)
GaeNextValues(i, memory_size, values, next_values) ==
    IF i < memory_size THEN values[i + 1] ELSE next_values

\* variant: the not_dones mask is applied to the accumulated advantage only
GaeAdvantage_MaskAdvantageOnly(reward, val, not_done, next_values, advantage, discount_factor, lambda_coefficient) ==
    reward - val + discount_factor * (next_values + lambda_coefficient * not_done * advantage)

\* advantage = rewards[i] - values[i]
\*             + discount_factor * not_dones[i] * (next_values + lambda_coefficient * advantage)
GaeAdvantage(reward, val, not_done, next_values, advantage, discount_factor, lambda_coefficient) ==
    reward - val + discount_factor * not_done * (next_values + lambda_coefficient * advantage)

\* the iterations i, i-1, ..., 1 of the loop over reversed(range(memory_size));
\* st holds the loop's variables advantage, advantages and next_values
RECURSIVE GaeLoop(_, _, _)
GaeLoop(i, st, in) ==
    IF i = 0 THEN st
    ELSE LET nv == GaeNextValues(i, Len(in.rewards), in.values, st.next_values)
             adv == GaeAdvantage(in.rewards[i], in.values[i],
                                 IF in.dones[i] THEN 0 ELSE 1,
                                 nv, st.advantage,
                                 in.discount_factor, in.lambda_coefficient)
         IN GaeLoop(i - 1,
                    [advantage |-> adv,
                     advantages |-> [st.advantages EXCEPT ![i] = adv],
                     next_values |-> nv],
                    in)

\* variant: the values are not added
GaeReturns_AdvantagesOnly(advantages, values) == advantages

\* returns = advantages + values
GaeReturns(advantages, values) ==
    [i \in 1..Len(advantages) |-> advantages[i] + values[i]]

\* (advantages - advantages.mean()) / (advantages.std() + 1e-8), element i kept
\* exactly as [num, rad, n], standing for num / (sqrt(rad) + n * 1e-8):
\* with n elements of sum S and sum of squares Q, a[i] - mean = (n*a[i] - S) / n
\* and std = sqrt(n*Q - S*S) / n
GaeNormalize(advantages) ==
    LET n == Len(advantages)
        S == SumSeq(advantages)
        Q == SumSeq([i \in 1..n |-> advantages[i] * advantages[i]])
    IN [i \in 1..n |-> [num |-> n * advantages[i] - S, rad |-> n * Q - S * S, n |-> n]]

\* compute_gae
compute_gae(in) ==
    LET memory_size == Len(in.rewards)
        st == GaeLoop(memory_size,
                      [advantage |-> 0,
                       advantages |-> [i \in 1..memory_size |-> 0],
                       next_values |-> in.next_values],
                      in)
    IN [status |-> "ok",
        returns |-> GaeReturns(st.advantages, in.values),
        advantages |-> GaeNormalize(st.advantages)]

\* _compute_gae, the jit-compiled helper
compute_gae_jit(in) == [status |-> "NotImplementedError"]

CallComputeGae ==
    /\ gae_in # NoGaeInput
    /\ gae_out = NoResult
    /\ gae_out' = compute_gae(gae_in)
    /\ UNCHANGED <<default_config, cfg_arg, agents, gae_in, gae_jit, lossVars, cfg, policy, value,
                   scheduler, optimizers, memories, mode, rollout, current_log_prob,
                   current_next_states, pc, error, timestep, actions, updateVars,
                   trace, since_update>>

CallCompiledGae ==
    /\ gae_in # NoGaeInput
    /\ gae_jit = NoResult
    /\ gae_jit' = compute_gae_jit(gae_in)
    /\ UNCHANGED <<default_config, cfg_arg, agents, gae_in, gae_out, lossVars, cfg, policy, value,
                   scheduler, optimizers, memories, mode, rollout, current_log_prob,
                   current_next_states, pc, error, timestep, actions, updateVars,
                   trace, since_update>>

\* ----------------------------------------------------------- loss functions
Min(a, b) == IF a <= b THEN a ELSE b
Max(a, b) == IF a >= b THEN a ELSE b

\* jnp.clip
Clip(x, lo, hi) == Min(Max(x, lo), hi)

\* jnp.exp of a whole number, in thousandths
Exp(x) ==
    CASE x = -4 -> 18
      [] x = -3 -> 50
      [] x = -2 -> 135
      [] x = -1 -> 368
      [] x = 0 -> 1000
      [] x = 1 -> 2718
      [] x = 2 -> 7389
      [] x = 3 -> 20086
      [] x = 4 -> 54598

NoPolicyInput == [next_log_prob |-> <<>>]
NoPolicyInputs == {NoPolicyInput}

\* what _policy_loss works on: the log-probabilities the policy gives the
\* sampled actions, and the sampled log-probabilities and advantages
PolicyInputs ==
    UNION {[next_log_prob : [1..n -> LogProbVals],
            sampled_log_prob : [1..n -> LogProbVals],
            sampled_advantages : [1..n -> AdvantageVals],
            ratio_clip : RatioClips] : n \in 1..MaxSamples}

\* variant: the ratio is taken from the new log-probability alone
LogRatio_NewOnly(next_log_prob, sampled_log_prob) == next_log_prob

\* next_log_prob - sampled_log_prob
LogRatio(next_log_prob, sampled_log_prob) == next_log_prob - sampled_log_prob

\* _update_policy: policy loss and approximate KL divergence, as means
\* <<sum, number of samples>>
update_policy(in) ==
    LET n == Len(in.next_log_prob)
        log_ratio == [i \in 1..n |-> LogRatio(in.next_log_prob[i], in.sampled_log_prob[i])]
        kl == [i \in 1..n |-> (Exp(log_ratio[i]) - One) - log_ratio[i] * One]
        ratio == [i \in 1..n |-> Exp(LogRatio(in.next_log_prob[i], in.sampled_log_prob[i]))]
        surrogate == [i \in 1..n |-> in.sampled_advantages[i] * ratio[i]]
        surrogate_clipped ==
            [i \in 1..n |-> in.sampled_advantages[i]
                               * Clip(ratio[i], One - in.ratio_clip, One + in.ratio_clip)]
        minimum == [i \in 1..n |-> Min(surrogate[i], surrogate_clipped[i])]
    IN [status |-> "ok",
        policy_loss |-> <<0 - SumSeq(minimum), n>>,
        kl_divergence |-> Mean(kl)]

CallUpdatePolicy ==
    /\ policy_in # NoPolicyInput
    /\ \A i \in 1..Len(policy_calls) : policy_calls[i].in # policy_in
    /\ policy_calls' = Append(policy_calls, [in |-> policy_in, out |-> update_policy(policy_in)])
    /\ UNCHANGED <<default_config, cfg_arg, agents, gaeVars, policy_in, value_in, value_out,
                   cfg, policy, value, scheduler, optimizers, memories, mode, rollout,
                   current_log_prob, current_next_states, pc, error, timestep, actions,
                   updateVars, trace, since_update>>

\* the next call is given other log-probabilities: every new one changed
\* by cn, every sampled one by co
PerturbLogProbs ==
    /\ Len(policy_calls) = 1
    /\ policy_calls[1].in = policy_in
    /\ \E cn, co \in Perturbations :
         /\ <<cn, co>> # <<0, 0>>
         /\ policy_in' = [policy_in EXCEPT
                            !.next_log_prob = [i \in DOMAIN @ |-> @[i] + cn],
                            !.sampled_log_prob = [i \in DOMAIN @ |-> @[i] + co]]
    /\ UNCHANGED <<default_config, cfg_arg, agents, gaeVars, policy_calls, value_in, value_out,
                   cfg, policy, value, scheduler, optimizers, memories, mode, rollout,
                   current_log_prob, current_next_states, pc, error, timestep, actions,
                   updateVars, trace, since_update>>

NoValueInput == [predicted_values |-> <<>>]
NoValueInputs == {NoValueInput}

\* the arguments of _update_value and the values the value model predicts
\* for the sampled states
ValueInputs ==
    UNION {[predicted_values : [1..n -> PredictedVals],
            sampled_values : [1..n -> OldValueVals],
            sampled_returns : [1..n -> ReturnVals],
            value_loss_scale : ValueLossScales,
            clip_predicted_values : BOOLEAN,
            value_clip : ValueClips] : n \in 1..MaxSamples}

\* variant: the clipped difference is added to the prediction
ClippedValue_AroundPrediction(predicted, sampled, value_clip) ==
    predicted + Clip(predicted - sampled, 0 - value_clip, value_clip)

\* sampled_values + jnp.clip(predicted_values - sampled_values, -value_clip, value_clip)
ClippedValue(predicted, sampled, value_clip) ==
    sampled + Clip(predicted - sampled, 0 - value_clip, value_clip)

\* _update_value: the value loss as <<value_loss_scale * sum, number of
\* samples>>, and the predicted values the loss was computed from
update_value(in) ==
    LET n == Len(in.predicted_values)
        predicted_values ==
            IF in.clip_predicted_values
            THEN [i \in 1..n |-> ClippedValue(in.predicted_values[i], in.sampled_values[i],
                                              in.value_clip)]
            ELSE in.predicted_values
        squared == [i \in 1..n |-> (in.sampled_returns[i] - predicted_values[i])
                                     * (in.sampled_returns[i] - predicted_values[i])]
    IN [status |-> "ok",
        value_loss |-> <<in.value_loss_scale * SumSeq(squared), n>>,
        predicted_values |-> predicted_values]

CallUpdateValue ==
    /\ value_in # NoValueInput
    /\ value_out = NoResult
    /\ value_out' = update_value(value_in)
    /\ UNCHANGED <<default_config, cfg_arg, agents, gaeVars, policy_in, policy_calls, value_in,
                   cfg, policy, value, scheduler, optimizers, memories, mode, rollout,
                   current_log_prob, current_next_states, pc, error, timestep, actions,
                   updateVars, trace, since_update>>

\* ------------------------------------------------------------ construction
\* configurations of the interaction cycle: every trigger setting, one
\* minibatch per update
InteractConfigs ==
    [rollouts : 1..MaxRollouts,
     learning_epochs : {1},
     mini_batches : {1},
     learning_starts : 0..MaxLearningStarts,
     random_timesteps : 0..MaxRandomTimesteps,
     kl_threshold : {0},
     entropy_loss_scale : {0},
     learning_rate_scheduler : {"None"},
     rewards_shaper : BOOLEAN]

\* configurations of the update loop: an update after every interaction
UpdateConfigs ==
    [rollouts : {1},
     learning_epochs : 1..MaxEpochs,
     mini_batches : 1..MaxMiniBatches,
     learning_starts : {0},
     random_timesteps : {0},
     kl_threshold : KLThresholds,
     entropy_loss_scale : {0, 1},
     learning_rate_scheduler : Schedulers,
     rewards_shaper : {FALSE}]

\* PPO_DEFAULT_CONFIG as the module defines it (the settings the agent reads)
PPO_DEFAULT_CONFIG ==
    [rollouts |-> 16,
     learning_epochs |-> 8,
     mini_batches |-> 2,
     learning_starts |-> 0,
     random_timesteps |-> 0,
     kl_threshold |-> 0,
     entropy_loss_scale |-> 0,
     learning_rate_scheduler |-> "None",
     rewards_shaper |-> FALSE]

\* cfg=None: no overrides
NoOverrides == [k \in {} |-> 0]

\* cfg arguments that override some of the settings
ConfigOverrides ==
    {NoOverrides}
    \cup {[rollouts |-> r] : r \in 1..MaxRollouts}
    \cup {[learning_starts |-> l] : l \in 1..MaxLearningStarts}
    \cup {[learning_epochs |-> e, mini_batches |-> m] : e \in 1..MaxEpochs, m \in 1..MaxMiniBatches}
    \cup {[kl_threshold |-> 1, learning_rate_scheduler |-> "KLAdaptiveRL"]}

\* _cfg = PPO_DEFAULT_CONFIG; _cfg.update(cfg): the content of the module
\* dictionary after the update, which is also the content of _cfg
UpdatedDefaults(defaults, overrides) ==
    [k \in DOMAIN defaults \cup DOMAIN overrides |->
        IF k \in DOMAIN overrides THEN overrides[k] ELSE defaults[k]]

\* the dictionary handed to Agent.__init__ as cfg
MergedConfig(defaults, overrides) ==
    [k \in DOMAIN defaults \cup DOMAIN overrides |->
        IF k \in DOMAIN overrides THEN overrides[k] ELSE defaults[k]]

\* which of the keys "policy" and "value" the models dictionary holds
ModelDicts == [policy : BOOLEAN, value : BOOLEAN]
FullModels == {[policy |-> TRUE, value |-> TRUE]}

\* PPO.__init__: the agent's fields after construction with the given
\* models dictionary (which keys it holds), memory tuple and configuration
PPO__init__(models, memory, c) ==
    LET pol == models.policy       \* self.models.get("policy", None)
        val == models.value        \* self.models.get("value", None)
        both == pol /\ val
    IN [cfg |-> c,
        policy |-> pol,
        value |-> val,
        scheduler |-> IF both /\ c.learning_rate_scheduler = "KLAdaptiveRL"
                      THEN "KLAdaptiveRL" ELSE "None",
        optimizers |-> both,
        memories |-> memory,
        rollout |-> 0,
        error |-> "none"]

\* the first agent of a process, constructed with a cfg argument of CfgSet
InitWith(CfgSet, ModelSet, MemorySet, SecondarySet, GaeSet, PolicySet, ValueSet) ==
    \E models \in ModelSet, c \in CfgSet, hasMemory \in MemorySet, nsec \in SecondarySet,
       g \in GaeSet, p \in PolicySet, v \in ValueSet :
        LET memory == IF hasMemory THEN [i \in 1..(1 + nsec) |-> <<>>] ELSE <<>>
            a == PPO__init__(models, memory, MergedConfig(PPO_DEFAULT_CONFIG, c))
        IN /\ default_config = UpdatedDefaults(PPO_DEFAULT_CONFIG, c)
           /\ cfg_arg = c
           /\ agents = 1
           /\ gae_in = g
           /\ gae_out = NoResult
           /\ gae_jit = NoResult
           /\ policy_in = p
           /\ policy_calls = <<>>
           /\ value_in = v
           /\ value_out = NoResult
           /\ cfg = a.cfg
           /\ policy = a.policy
           /\ value = a.value
           /\ scheduler = a.scheduler
           /\ optimizers = a.optimizers
           /\ memories = a.memories
           /\ rollout = a.rollout
           /\ error = a.error
           /\ mode = "unset"
           /\ current_log_prob = None
           /\ current_next_states = None
           /\ pc = "init"
           /\ timestep = 0
           /\ actions = <<None, None>>
           /\ epoch = 0
           /\ sampled_batches = <<>>
           /\ batch = 0
           /\ kl_divergences = <<>>
           /\ cumulative = ZeroLosses
           /\ trace = <<>>
           /\ since_update = 0

Init == InitWith(InteractConfigs, ModelDicts, BOOLEAN, 0..MaxSecondary, NoGaeInputs,
                 NoPolicyInputs, NoValueInputs)

InitUpdate == InitWith(UpdateConfigs, FullModels, {TRUE}, {0}, NoGaeInputs,
                       NoPolicyInputs, NoValueInputs)

InitConfig == InitWith({NoOverrides}, FullModels, {TRUE}, {0}, NoGaeInputs,
                       NoPolicyInputs, NoValueInputs)

InitGae == InitWith({NoOverrides}, FullModels, {TRUE}, {0}, GaeInputs,
                    NoPolicyInputs, NoValueInputs)

InitPolicyLoss == InitWith({NoOverrides}, FullModels, {TRUE}, {0}, NoGaeInputs,
                           PolicyInputs, NoValueInputs)

InitValueLoss == InitWith({NoOverrides}, FullModels, {TRUE}, {0}, NoGaeInputs,
                          NoPolicyInputs, ValueInputs)

\* a further agent is constructed in the same process; the model follows
\* the agent constructed last
Construct ==
    /\ agents < MaxAgents
    /\ \E c \in ConfigOverrides :
         LET memory == << <<>> >>
             a == PPO__init__([policy |-> TRUE, value |-> TRUE], memory,
                              MergedConfig(default_config, c))
         IN /\ default_config' = UpdatedDefaults(default_config, c)
            /\ cfg_arg' = c
            /\ agents' = agents + 1
            /\ cfg' = a.cfg
            /\ policy' = a.policy
            /\ value' = a.value
            /\ scheduler' = a.scheduler
            /\ optimizers' = a.optimizers
            /\ memories' = a.memories
            /\ rollout' = a.rollout
            /\ error' = a.error
    /\ mode' = "unset"
    /\ current_log_prob' = None
    /\ current_next_states' = None
    /\ pc' = "init"
    /\ timestep' = 0
    /\ actions' = <<None, None>>
    /\ epoch' = 0
    /\ sampled_batches' = <<>>
    /\ batch' = 0
    /\ kl_divergences' = <<>>
    /\ cumulative' = ZeroLosses
    /\ trace' = <<>>
    /\ since_update' = 0
    /\ UNCHANGED <<gaeVars, lossVars>>

\* an exception propagates out of the agent: the run stops
Raise(e) ==
    /\ pc' = "failed"
    /\ error' = e

\* ------------------------------------------------------------------- init
AgentInit ==
    /\ pc = "init"
    /\ mode' = "eval"
    /\ current_log_prob' = None
    /\ current_next_states' = None
    /\ IF ~policy
       THEN Raise("AttributeError")       \* self.policy.apply on None
       ELSE pc' = "pre" /\ UNCHANGED error
    /\ UNCHANGED <<agentVars, memories, rollout, timestep, actions, updateVars,
                   trace, since_update>>

\* -------------------------------------------------------- pre_interaction
PreInteraction ==
    /\ pc = "pre"
    /\ rollout < MaxInteractions
    /\ \E t \in 0..MaxTimestep : timestep' = t
    /\ pc' = "act"
    /\ trace' = <<>>
    /\ epoch' = 0
    /\ sampled_batches' = <<>>
    /\ batch' = 0
    /\ kl_divergences' = <<>>
    /\ cumulative' = ZeroLosses
    /\ UNCHANGED <<agentVars, memories, mode, rollout, current_log_prob,
                   current_next_states, error, actions, since_update>>

\* -------------------------------------------------------------------- act
Act ==
    /\ pc = "act"
    /\ IF ~policy
       THEN /\ Raise("AttributeError")
            /\ UNCHANGED <<actions, current_log_prob>>
       ELSE /\ IF timestep < cfg.random_timesteps
               THEN /\ actions' = PolicyRandomAct(rollout + 1)
                    /\ UNCHANGED current_log_prob
               ELSE /\ actions' = PolicyAct(rollout + 1)
                    /\ current_log_prob' = PolicyAct(rollout + 1)[2]
            /\ pc' = "record"
            /\ UNCHANGED error
    /\ UNCHANGED <<agentVars, memories, mode, rollout, current_next_states,
                   timestep, updateVars, trace, since_update>>

\* ------------------------------------------------------ record_transition
\* the samples handed to add_samples by record_transition
Transition(states, acts, rewards, next_states) ==
    [states |-> states,
     actions |-> acts,
     rewards |-> IF cfg.rewards_shaper THEN RewardsShaper(rewards, timestep) ELSE rewards,
     next_states |-> next_states,
     log_prob |-> current_log_prob,
     values |-> ValueAct(states)]

\* variant: only the primary memory receives the samples
AddSamples_PrimaryOnly(mems, tr) ==
    [i \in 1..Len(mems) |-> IF i = 1 THEN Append(mems[i], tr) ELSE mems[i]]

\* memory.add_samples on the primary memory and on every secondary memory
AddSamples(mems, tr) == [i \in 1..Len(mems) |-> Append(mems[i], tr)]

RecordTransition ==
    /\ pc = "record"
    /\ LET states == rollout + 1
           next_states == rollout + 2
       IN IF memories # <<>>
          THEN IF ~value
               THEN /\ current_next_states' = next_states
                    /\ Raise("AttributeError")       \* self.value.act on None
                    /\ UNCHANGED memories
               ELSE /\ current_next_states' = next_states
                    /\ memories' = AddSamples(memories,
                                      Transition(states, actions[1], RawReward, next_states))
                    /\ pc' = "post"
                    /\ UNCHANGED error
          ELSE /\ pc' = "post"
               /\ UNCHANGED <<memories, current_next_states, error>>
    /\ UNCHANGED <<agentVars, mode, rollout, current_log_prob, timestep, actions,
                   updateVars, trace, since_update>>

\* ------------------------------------------------------- post_interaction
\* variant: the learning_starts test is missing
UpdateDue_NoLearningStarts(r, t) == r % cfg.rollouts = 0

\* variant: the rollout counter is compared instead of taken modulo rollouts
UpdateDue_AtLeast(r, t) == r >= cfg.rollouts /\ t >= cfg.learning_starts

\* the condition under which post_interaction runs _update
UpdateDue(r, t) == (r % cfg.rollouts = 0) /\ t >= cfg.learning_starts

PostInteraction ==
    /\ pc = "post"
    /\ rollout' = rollout + 1
    /\ IF UpdateDue(rollout + 1, timestep)
       THEN /\ mode' = "train"
            /\ pc' = "update"
       ELSE /\ pc' = "pre"
            /\ UNCHANGED mode
    /\ since_update' = since_update + 1
    /\ UNCHANGED <<agentVars, memories, current_log_prob, current_next_states,
                   error, timestep, actions, updateVars, trace>>

\* ---------------------------------------------------------------- _update
\* bootstrap value, advantage estimation, write-back and minibatch sampling
\* variant: the bootstrap value is computed from the states of the last transition
BootstrapCall_States == [op |-> "bootstrap", next_states |-> rollout]

\* last_values: self.value.act on self._state_preprocessor(self._current_next_states)
BootstrapCall == [op |-> "bootstrap", next_states |-> current_next_states]

\* data of a memory tensor or of a result of compute_gae, and the mode of the
\* value preprocessor it went through ("no": not preprocessed)
Data(name, preprocessed) == [data |-> name, preprocessed |-> preprocessed]

\* variant: the preprocessed values are written back before the advantages are estimated
PrepareCalls_WriteValuesFirst ==
    << [op |-> "get_tensor", name |-> "values", val |-> Data("values", "no")],
       [op |-> "set_tensor", name |-> "values", val |-> Data("values", "train")],
       [op |-> "get_tensor", name |-> "rewards", val |-> Data("rewards", "no")],
       [op |-> "get_tensor", name |-> "terminated", val |-> Data("terminated", "no")],
       [op |-> "compute_gae", rewards |-> Data("rewards", "no"),
        dones |-> Data("terminated", "no"), values |-> Data("values", "train"),
        next_values |-> current_next_states],
       [op |-> "set_tensor", name |-> "returns", val |-> Data("gae returns", "train")],
       [op |-> "set_tensor", name |-> "advantages", val |-> Data("gae advantages", "no")],
       [op |-> "sample_all", mini_batches |-> cfg.mini_batches] >>

\* the memory reads, the advantage estimation, the write-back and the sampling
\* of the minibatches, in the order in which _update makes them
PrepareCalls ==
    << [op |-> "get_tensor", name |-> "values", val |-> Data("values", "no")],
       [op |-> "get_tensor", name |-> "rewards", val |-> Data("rewards", "no")],
       [op |-> "get_tensor", name |-> "terminated", val |-> Data("terminated", "no")],
       [op |-> "compute_gae", rewards |-> Data("rewards", "no"),
        dones |-> Data("terminated", "no"), values |-> Data("values", "no"),
        next_values |-> current_next_states],
       [op |-> "set_tensor", name |-> "values", val |-> Data("values", "train")],
       [op |-> "set_tensor", name |-> "returns", val |-> Data("gae returns", "train")],
       [op |-> "set_tensor", name |-> "advantages", val |-> Data("gae advantages", "no")],
       [op |-> "sample_all", mini_batches |-> cfg.mini_batches] >>

UpdateBegin ==
    /\ pc = "update"
    /\ IF ~value
       THEN /\ Raise("AttributeError")    \* self.value.training = False on None
            /\ UNCHANGED <<trace, sampled_batches>>
       ELSE IF memories = <<>>
            THEN /\ trace' = Append(trace, BootstrapCall)
                 /\ Raise("AttributeError")    \* self.memory.get_tensor_by_name on None
                 /\ UNCHANGED sampled_batches
            ELSE /\ trace' = Append(trace, BootstrapCall) \o PrepareCalls
                 /\ sampled_batches' = SampleAll(cfg.mini_batches)
                 /\ pc' = "epoch"
                 /\ UNCHANGED error
    /\ since_update' = 0
    /\ epoch' = 0
    /\ cumulative' = ZeroLosses
    /\ UNCHANGED <<agentVars, memories, mode, rollout, current_log_prob,
                   current_next_states, timestep, actions, batch, kl_divergences>>

\* for epoch in range(self._learning_epochs): kl_divergences = []
EpochStart ==
    /\ pc = "epoch"
    /\ IF epoch < cfg.learning_epochs
       THEN /\ kl_divergences' = <<>>
            /\ batch' = 1
            /\ pc' = IF Len(sampled_batches) >= 1 THEN "batch" ELSE "epoch_end"
       ELSE /\ pc' = "record_data"
            /\ UNCHANGED <<kl_divergences, batch>>
    /\ UNCHANGED <<agentVars, memories, mode, rollout, current_log_prob,
                   current_next_states, error, timestep, actions, epoch, cumulative,
                   sampled_batches, trace, since_update>>

\* variant: the threshold is compared also when it is 0 (disabled)
EarlyStop_AlwaysCompared(kl) == kl > cfg.kl_threshold

\* variant: the epoch is never stopped
EarlyStop_Never(kl) == FALSE

\* early stopping with KL divergence
EarlyStop(kl) == cfg.kl_threshold # 0 /\ kl > cfg.kl_threshold

\* variant: the break leaves the epochs loop as well
AfterBreak_EndsUpdate == "record_data"

\* where control continues after the break: the break leaves the
\* mini-batches loop only, the rest of the epoch's body follows
AfterBreak == "epoch_end"

\* variant: the KL divergence is collected after the early-stopping test
AppendKL_AfterTest(kls, kl) == IF EarlyStop(kl) THEN kls ELSE Append(kls, kl)

\* kl_divergences.append(kl_divergence.item()), before the early-stopping test
AppendKL(kls, kl) == Append(kls, kl)

\* the optimizers' learning-rate argument: self.scheduler._lr if self.scheduler else None
LrArg == IF scheduler # "None" THEN "scheduler._lr" ELSE "None"

\* entropy_loss of one minibatch
EntropyLoss == IF cfg.entropy_loss_scale # 0
               THEN (0 - cfg.entropy_loss_scale) * PolicyEntropy ELSE 0

\* variant: the state preprocessor is in training mode in every epoch
PreprocessorTrain_Always(ep) == TRUE

\* self._state_preprocessor(sampled_states, train=not epoch)
PreprocessorTrain(ep) == ep = 0

\* the calls every processed minibatch starts with: state preprocessor, then
\* policy loss, gradient and KL divergence
PolicyCalls(b, kl, pl) ==
    << [op |-> "state_preprocessor", epoch |-> epoch, batch |-> b,
        train |-> PreprocessorTrain(epoch)],
       [op |-> "update_policy", epoch |-> epoch, batch |-> b, kl |-> kl, loss |-> pl] >>

\* calls made for one minibatch whose optimizer steps are applied
StepCalls(b, kl, pl, vl) ==
    PolicyCalls(b, kl, pl) \o
    << [op |-> "policy_step", epoch |-> epoch, batch |-> b, lr |-> LrArg],
       [op |-> "update_value", epoch |-> epoch, batch |-> b, loss |-> vl],
       [op |-> "value_step", epoch |-> epoch, batch |-> b, lr |-> LrArg] >>

\* variant: the epoch is stopped after the policy optimizer's step
StopCalls_AfterPolicyStep(b, kl, pl) ==
    PolicyCalls(b, kl, pl) \o
    << [op |-> "policy_step", epoch |-> epoch, batch |-> b, lr |-> LrArg] >>

\* calls made for a minibatch at which the epoch is stopped
StopCalls(b, kl, pl) == PolicyCalls(b, kl, pl)

\* body of the mini-batches loop for the minibatch sampled_batches[batch]
MiniBatch ==
    /\ pc = "batch"
    /\ batch <= Len(sampled_batches)
    /\ \E kl \in KLValues, losses \in MinibatchLosses :
         LET b == sampled_batches[batch]
             pl == losses[1]
             vl == losses[2]
         IN /\ kl_divergences' = AppendKL(kl_divergences, kl)
            /\ IF EarlyStop(kl)
               THEN /\ trace' = trace \o StopCalls(b, kl, pl)
                    /\ pc' = AfterBreak
                    /\ UNCHANGED <<cumulative, batch>>
               ELSE /\ trace' = trace \o StepCalls(b, kl, pl, vl)
                    /\ cumulative' = [policy |-> cumulative.policy + pl,
                                      value |-> cumulative.value + vl,
                                      entropy |-> IF cfg.entropy_loss_scale # 0
                                                  THEN cumulative.entropy + EntropyLoss
                                                  ELSE cumulative.entropy]
                    /\ batch' = batch + 1
                    /\ pc' = IF batch = Len(sampled_batches)
                             THEN "epoch_end" ELSE "batch"
    /\ UNCHANGED <<agentVars, memories, mode, rollout, current_log_prob,
                   current_next_states, error, timestep, actions, epoch,
                   sampled_batches, since_update>>

\* the KL divergences of the policy-loss computations of the epochs up to ep in a call log
PolicyKLs(log, ep) ==
    LET evs == SelectSeq(log, LAMBDA e : e.op = "update_policy" /\ e.epoch <= ep)
    IN [i \in 1..Len(evs) |-> evs[i].kl]

\* variant: kl_divergences is created once, before the epochs loop
SchedulerSteps_NoReset(kls) ==
    IF cfg.learning_rate_scheduler # "None" /\ scheduler = "KLAdaptiveRL"
    THEN << [op |-> "scheduler_step", epoch |-> epoch, kl |-> Mean(PolicyKLs(trace, epoch))] >>
    ELSE << >>

\* update learning rate, after the mini-batches loop of an epoch
SchedulerSteps(kls) ==
    IF cfg.learning_rate_scheduler # "None" /\ scheduler = "KLAdaptiveRL"
    THEN << [op |-> "scheduler_step", epoch |-> epoch, kl |-> Mean(kls)] >>
    ELSE << >>

EpochEnd ==
    /\ pc = "epoch_end"
    /\ trace' = trace \o SchedulerSteps(kl_divergences)
    /\ epoch' = epoch + 1
    /\ pc' = "epoch"
    /\ UNCHANGED <<agentVars, memories, mode, rollout, current_log_prob,
                   current_next_states, error, timestep, actions, sampled_batches,
                   batch, kl_divergences, cumulative, since_update>>

\* variant: the losses are averaged over the epochs only
Divisor_EpochsOnly == cfg.learning_epochs

\* record data: the track_data calls at the end of _update
Divisor == cfg.learning_epochs * cfg.mini_batches

LossTracks ==
    << [op |-> "track", tag |-> "Loss / Policy loss", val |-> <<cumulative.policy, Divisor>>],
       [op |-> "track", tag |-> "Loss / Value loss", val |-> <<cumulative.value, Divisor>>] >>
    \o (IF cfg.entropy_loss_scale # 0
        THEN << [op |-> "track", tag |-> "Loss / Entropy loss",
                 val |-> <<cumulative.entropy, Divisor>>] >>
        ELSE << >>)

LrTrack == << [op |-> "track", tag |-> "Learning / Learning rate", val |-> <<0, 1>>] >>

RecordData ==
    /\ pc = "record_data"
    /\ IF Divisor = 0
       THEN /\ Raise("ZeroDivisionError")
            /\ UNCHANGED trace
       ELSE IF cfg.learning_rate_scheduler # "None"
            THEN IF scheduler = "None"
                 THEN /\ trace' = trace \o LossTracks
                      /\ Raise("AttributeError")     \* self.scheduler._lr on None
                 ELSE /\ trace' = trace \o LossTracks \o LrTrack
                      /\ pc' = "update_end"
                      /\ UNCHANGED error
            ELSE /\ trace' = trace \o LossTracks
                 /\ pc' = "update_end"
                 /\ UNCHANGED error
    /\ UNCHANGED <<agentVars, memories, mode, rollout, current_log_prob,
                   current_next_states, timestep, actions, updateVars, since_update>>

\* post_interaction after _update returned: set_mode("eval")
PostInteractionEnd ==
    /\ pc = "update_end"
    /\ mode' = "eval"
    /\ pc' = "pre"
    /\ UNCHANGED <<agentVars, memories, rollout, current_log_prob,
                   current_next_states, error, timestep, actions, updateVars,
                   trace, since_update>>

Next ==
    \/ AgentInit
    \/ PreInteraction
    \/ Act
    \/ RecordTransition
    \/ PostInteraction
    \/ UpdateBegin
    \/ EpochStart
    \/ MiniBatch
    \/ EpochEnd
    \/ RecordData
    \/ PostInteractionEnd

Spec == Init /\ [][Next]_vars

SpecUpdate == InitUpdate /\ [][Next]_vars

\* construction of several agents, each initialised after its construction
NextConfig ==
    \/ Construct
    \/ AgentInit

SpecConfig == InitConfig /\ [][NextConfig]_vars

\* the eager and the compiled advantage estimator, called on the same arguments
NextGae ==
    \/ CallComputeGae
    \/ CallCompiledGae

SpecGae == InitGae /\ [][NextGae]_vars

\* _update_policy called on a minibatch, and again on the minibatch with
\* other log-probabilities
NextPolicyLoss ==
    \/ CallUpdatePolicy
    \/ PerturbLogProbs

SpecPolicyLoss == InitPolicyLoss /\ [][NextPolicyLoss]_vars

\* _update_value called on a minibatch
NextValueLoss == CallUpdateValue

SpecValueLoss == InitValueLoss /\ [][NextValueLoss]_vars

\* ======================================================================
\* Properties
\* ======================================================================
UpdatePcs == {"update", "epoch", "batch", "epoch_end", "record_data", "update_end"}

\* the entries of the call log with the given operation
Calls(op) == SelectSeq(trace, LAMBDA e : e.op = op)
Count(op) == Len(Calls(op))

\* the track_data calls with the given tag
Tracked(tag) == SelectSeq(trace, LAMBDA e : e.op = "track" /\ e.tag = tag)

\* the KL divergences computed in epoch ep, in order
EpochKLs(ep) ==
    LET evs == SelectSeq(trace, LAMBDA e : e.op = "update_policy" /\ e.epoch = ep)
    IN [i \in 1..Len(evs) |-> evs[i].kl]

\* the optimizer step of kind op was applied for minibatch b of epoch ep
Stepped(op, ep, b) ==
    \E i \in 1..Len(trace) : trace[i].op = op /\ trace[i].epoch = ep /\ trace[i].batch = b

\* sum of the losses returned by the computations of kind lossOp for the
\* minibatches whose optimizer step of kind stepOp was applied
AppliedLossSum(lossOp, stepOp) ==
    LET evs == SelectSeq(trace, LAMBDA e : e.op = lossOp /\ Stepped(stepOp, e.epoch, e.batch))
    IN SumSeq([i \in 1..Len(evs) |-> evs[i].loss])

\* ---------------------------------------------------------------------
\* C1: _update is never run in a post_interaction call whose timestep is
\* smaller than learning_starts.
C1_UpdateOnlyAfterLearningStarts ==
    pc \in UpdatePcs => timestep >= cfg.learning_starts

C1_Witness ==
    /\ pc = "update"
    /\ cfg.learning_starts > 0
    /\ timestep = cfg.learning_starts

\* ---------------------------------------------------------------------
\* C2 (as stated): whenever _update runs, exactly `rollouts`
\* post_interaction calls have occurred since the previous _update, or
\* since init, for every value of learning_starts.
C2_ExactlyRolloutsSinceUpdate ==
    pc = "update" => since_update = cfg.rollouts

\* C2 (amended): whenever _update runs, the number of post_interaction
\* calls since the previous _update (or since init) is a positive multiple
\* of `rollouts`, every one of these calls having recorded one transition
\* when the agent has a memory; it is exactly `rollouts` when
\* learning_starts = 0.
C2_MultipleOfRolloutsSinceUpdate ==
    pc = "update" =>
        /\ since_update > 0
        /\ since_update % cfg.rollouts = 0
        /\ cfg.learning_starts = 0 => since_update = cfg.rollouts
        /\ memories # <<>> => Len(memories[1]) = rollout

C2_Witness ==
    /\ pc = "update"
    /\ since_update = 2 * cfg.rollouts
    /\ memories # <<>>

\* ---------------------------------------------------------------------
\* C3: with kl_threshold = 0, one run of _update invokes the policy
\* optimizer's step exactly learning_epochs * mini_batches times, and the
\* value optimizer's step as often.
C3_StepsWithoutEarlyStopping ==
    (pc \in {"record_data", "update_end"} /\ cfg.kl_threshold = 0) =>
        /\ Count("policy_step") = cfg.learning_epochs * cfg.mini_batches
        /\ Count("value_step") = cfg.learning_epochs * cfg.mini_batches

C3_Witness ==
    /\ pc = "update_end"
    /\ cfg.kl_threshold = 0
    /\ cfg.learning_epochs = 2
    /\ cfg.mini_batches = 2
    /\ Count("policy_step") = 4
    /\ \E i \in 1..Len(trace) : trace[i].op = "update_policy" /\ trace[i].kl > 0

\* ---------------------------------------------------------------------
\* C4: the tracked policy and value losses are the sums of the losses of
\* the minibatches whose optimizer steps were applied, divided by
\* learning_epochs * mini_batches, also when early stopping skipped
\* minibatches; every completed _update tracks each of them once.
C4_TrackedLosses ==
    /\ \A i \in 1..Len(trace) :
         trace[i].op = "track" =>
            /\ trace[i].tag = "Loss / Policy loss" =>
                 trace[i].val = <<AppliedLossSum("update_policy", "policy_step"),
                                  cfg.learning_epochs * cfg.mini_batches>>
            /\ trace[i].tag = "Loss / Value loss" =>
                 trace[i].val = <<AppliedLossSum("update_value", "value_step"),
                                  cfg.learning_epochs * cfg.mini_batches>>
    /\ pc = "update_end" =>
         /\ Len(Tracked("Loss / Policy loss")) = 1
         /\ Len(Tracked("Loss / Value loss")) = 1

C4_Witness ==
    /\ pc = "update_end"
    /\ cfg.mini_batches = 2
    /\ Count("policy_step") >= 1
    /\ Count("update_policy") > Count("policy_step")
    /\ Len(Tracked("Loss / Value loss")) = 1

\* ---------------------------------------------------------------------
\* C5: if kl_threshold > 0 and the KL divergence of a minibatch exceeds it,
\* nothing is computed or stepped for the later minibatches of that epoch,
\* and the adaptive scheduler is stepped for that epoch with the mean of
\* the KL divergences collected so far, the exceeding one included.
Exceeds(i) ==
    /\ trace[i].op = "update_policy"
    /\ cfg.kl_threshold > 0
    /\ trace[i].kl > cfg.kl_threshold

C5_EarlyStopSkipsRestOfEpoch ==
    \A i \in 1..Len(trace) :
        Exceeds(i) =>
            LET ep == trace[i].epoch
            IN /\ \A j \in 1..Len(trace) :
                    (trace[j].op \in {"update_policy", "policy_step", "update_value", "value_step"}
                       /\ trace[j].epoch = ep) => trace[j].batch < trace[i].batch \/ j = i
               /\ (scheduler = "KLAdaptiveRL" /\ epoch > ep) =>
                    /\ Last(EpochKLs(ep)) = trace[i].kl
                    /\ \E j \in (i + 1)..Len(trace) :
                          trace[j] = [op |-> "scheduler_step", epoch |-> ep,
                                      kl |-> Mean(EpochKLs(ep))]

C5_Witness ==
    /\ pc = "update_end"
    /\ scheduler = "KLAdaptiveRL"
    /\ cfg.mini_batches = 2
    /\ \E i \in 1..Len(trace) : Exceeds(i) /\ trace[i].batch = 1 /\ trace[i].epoch = 0
    /\ \E i \in 1..Len(trace) : Exceeds(i) /\ trace[i].batch = 2 /\ trace[i].epoch = 1

\* ---------------------------------------------------------------------
\* C6: with the KL-adaptive scheduler, one run of _update steps the
\* scheduler exactly learning_epochs times, once after the minibatch loop
\* of each epoch, with the mean of the KL divergences of that epoch only.
C6_SchedulerSteppedOncePerEpoch ==
    (scheduler = "KLAdaptiveRL" /\ pc \in UpdatePcs \ {"update"}) =>
        LET steps == Calls("scheduler_step")
        IN /\ Len(steps) = epoch
           /\ pc \in {"record_data", "update_end"} => Len(steps) = cfg.learning_epochs
           /\ \A k \in 1..Len(steps) :
                 /\ steps[k].epoch = k - 1
                 /\ steps[k].kl = Mean(EpochKLs(k - 1))
           /\ \A i, j \in 1..Len(trace) :
                 (trace[i].op = "scheduler_step" /\ trace[j].op = "update_policy") =>
                     (j < i <=> trace[j].epoch <= trace[i].epoch)

C6_Witness ==
    /\ pc = "update_end"
    /\ scheduler = "KLAdaptiveRL"
    /\ cfg.learning_epochs = 2
    /\ cfg.mini_batches = 2
    /\ Count("scheduler_step") = 2
    /\ EpochKLs(0) = <<2, 2>>
    /\ EpochKLs(1) = <<0, 0>>

\* ---------------------------------------------------------------------
\* C7 (as stated): when a learning-rate scheduler is configured, adaptive
\* or plain, _update runs to completion and tracks the learning rate.
C7_UpdateCompletesWithAnyScheduler ==
    cfg.learning_rate_scheduler # "None" =>
        /\ error = "none"
        /\ pc = "update_end" => Len(Tracked("Learning / Learning rate")) = 1

\* ---------------------------------------------------------------------
\* C8 (as stated): an agent whose models dictionary lacks "policy" or
\* "value" does not exist: its construction failed with a KeyError.
C8_MissingModelFailsConstruction ==
    (~policy \/ ~value) => (pc = "failed" /\ error = "KeyError")

\* ---------------------------------------------------------------------
\* C9 (as stated): every act call caches the log_prob of the action it
\* returns, and record_transition writes that log_prob, at every timestep.
LogProbOf(a) == PolicyAct(a)[2]

C9_RecordedLogProbIsOfSameTimestep ==
    /\ pc = "record" => current_log_prob = LogProbOf(actions[1])
    /\ (pc = "post" /\ memories # <<>>) =>
          Last(memories[1]).log_prob = LogProbOf(Last(memories[1]).actions)

\* ---------------------------------------------------------------------
\* C10: each record_transition call appends one transition to the primary
\* memory and the identical transition to every secondary memory, so all
\* memories have received the same transitions.
C10_AllMemoriesReceiveSameTransitions ==
    /\ \A i \in 1..Len(memories) : memories[i] = memories[1]
    /\ (pc = "post" /\ memories # <<>>) =>
          /\ Len(memories[1]) = rollout + 1
          /\ Last(memories[1]) =
                [states |-> rollout + 1,
                 actions |-> actions[1],
                 rewards |-> IF cfg.rewards_shaper
                             THEN RewardsShaper(RawReward, timestep) ELSE RawReward,
                 next_states |-> rollout + 2,
                 log_prob |-> current_log_prob,
                 values |-> ValueAct(rollout + 1)]

C10_Witness ==
    /\ pc = "post"
    /\ Len(memories) = 2
    /\ Len(memories[2]) >= 2
    /\ cfg.rewards_shaper
    /\ Last(memories[2]).log_prob # None

\* ---------------------------------------------------------------------
\* C11 (as stated): constructing an agent with cfg overrides leaves
\* PPO_DEFAULT_CONFIG unchanged, and an agent constructed with cfg=None
\* gets the documented defaults, whatever agents were constructed before.
C11_DefaultsUnchangedByConstruction ==
    /\ default_config = PPO_DEFAULT_CONFIG
    /\ cfg_arg = NoOverrides => cfg = PPO_DEFAULT_CONFIG

\* ---------------------------------------------------------------------
\* Advantage estimator: the quantities the statements are about
GaeLen == Len(gae_in.rewards)
NotDone(i) == IF gae_in.dones[i] THEN 0 ELSE 1

\* the one-step TD advantage of step i; the value after the last step is
\* multiplied by 1 - done = 0 in the case considered and taken as 0
TDAdvantage(i) ==
    gae_in.rewards[i] - gae_in.values[i]
      + gae_in.discount_factor * NotDone(i) * (IF i < GaeLen THEN gae_in.values[i + 1] ELSE 0)

\* the value following step i: values[i+1], the bootstrap value after the last step
FollowingValue(i) == IF i = GaeLen THEN gae_in.next_values ELSE gae_in.values[i + 1]

\* the advantage of step i before normalization, by the recurrence of the
\* estimator: A(T+1) = 0, A(i) = r[i] - v[i] + gamma (1 - d[i]) (V(i+1) + lambda A(i+1))
RECURSIVE RawAdvantage(_)
RawAdvantage(i) ==
    IF i > GaeLen THEN 0
    ELSE gae_in.rewards[i] - gae_in.values[i]
           + gae_in.discount_factor * NotDone(i)
               * (FollowingValue(i) + gae_in.lambda_coefficient * RawAdvantage(i + 1))

\* the normalized advantage x, which stands for x.num / (sqrt(x.rad) + x.n * 1e-8),
\* equals the whole number k: only as 0 = 0, since for x.num # 0 the quotient
\* is irrational or carries the term x.n * 1e-8 in its denominator
NormalizedEquals(x, k) == x.num = 0 /\ k = 0

\* ---------------------------------------------------------------------
\* C12 (as stated): for a trajectory with dones[T-1] = True and lambda = 0
\* the advantages returned by compute_gae are the one-step TD advantages.
C12_ReturnedAdvantagesAreTD ==
    (gae_out.status = "ok" /\ gae_in.lambda_coefficient = 0 /\ gae_in.dones[GaeLen]) =>
        \A i \in 1..GaeLen : NormalizedEquals(gae_out.advantages[i], TDAdvantage(i))

\* C12 (amended): for a trajectory with dones[T-1] = True and lambda = 0 the
\* advantages before normalization, returns[i] - values[i], are the one-step
\* TD advantages, and the advantages returned are these after normalization
\* to zero mean and unit deviation.
C12_RawAdvantagesAreTD ==
    (gae_out.status = "ok" /\ gae_in.lambda_coefficient = 0 /\ gae_in.dones[GaeLen]) =>
        /\ \A i \in 1..GaeLen : gae_out.returns[i] - gae_in.values[i] = TDAdvantage(i)
        /\ gae_out.advantages = GaeNormalize([i \in 1..GaeLen |-> TDAdvantage(i)])

C12_Witness ==
    /\ gae_out.status = "ok"
    /\ gae_in.lambda_coefficient = 0
    /\ GaeLen = 3
    /\ gae_in.dones = <<FALSE, TRUE, TRUE>>
    /\ gae_in.values = <<0, 2, 2>>
    /\ gae_in.discount_factor = 2
    /\ \E i \in 1..GaeLen : gae_out.advantages[i].num # 0

\* ---------------------------------------------------------------------
\* C13: returns[i] is the advantage of step i before normalization plus
\* values[i], for every input and index; the normalization shows in the
\* advantages only.
C13_ReturnsFromRawAdvantages ==
    gae_out.status = "ok" =>
        /\ \A i \in 1..GaeLen : gae_out.returns[i] = RawAdvantage(i) + gae_in.values[i]
        /\ \A i \in 1..GaeLen :
              gae_out.advantages[i].num = GaeLen * RawAdvantage(i)
                                            - SumSeq([j \in 1..GaeLen |-> RawAdvantage(j)])

C13_Witness ==
    /\ gae_out.status = "ok"
    /\ GaeLen = 3
    /\ gae_in.lambda_coefficient = 1
    /\ \A i \in 1..GaeLen : ~gae_in.dones[i] /\ gae_in.values[i] = 2
    /\ \E i \in 1..GaeLen : gae_out.advantages[i].num # 0

\* ---------------------------------------------------------------------
\* C14: in the backward pass the bootstrap value is the next value at the
\* last index only and values[i+1] at every other index, and where done[i]
\* holds the advantage before normalization is reward[i] - value[i].
C14_BootstrapOnlyAtLastIndex ==
    gae_out.status = "ok" =>
        LET A(i) == IF i > GaeLen THEN 0 ELSE gae_out.returns[i] - gae_in.values[i]
        IN \A i \in 1..GaeLen :
              /\ A(i) = gae_in.rewards[i] - gae_in.values[i]
                          + gae_in.discount_factor * NotDone(i)
                              * ((IF i = GaeLen THEN gae_in.next_values ELSE gae_in.values[i + 1])
                                 + gae_in.lambda_coefficient * A(i + 1))
              /\ gae_in.dones[i] => A(i) = gae_in.rewards[i] - gae_in.values[i]

C14_Witness ==
    /\ gae_out.status = "ok"
    /\ GaeLen = 3
    /\ gae_in.dones = <<FALSE, TRUE, FALSE>>
    /\ gae_in.values = <<0, 2, 0>>
    /\ gae_in.next_values = 3
    /\ gae_in.lambda_coefficient = 1

\* ---------------------------------------------------------------------
\* C15 (as stated): _compute_gae returns the same (returns, advantages) as
\* compute_gae, for every input.
C15_CompiledEqualsEager ==
    (gae_out # NoResult /\ gae_jit # NoResult) => gae_jit = gae_out

\* ---------------------------------------------------------------------
\* C16 (as stated): the bootstrap value of _update is evaluated on the
\* next_states passed to the most recent record_transition call, in every
\* configuration, also when the agent has no memory.
C16_BootstrapOnLastNextStates ==
    \A i \in 1..Len(trace) :
        trace[i].op = "bootstrap" => trace[i].next_states = rollout + 1

\* C16 (amended): when the agent has a memory, the bootstrap value of
\* _update is evaluated on the next_states passed to the most recent
\* record_transition call, the successor state of the last transition in
\* the memory; without a memory record_transition caches no next_states and
\* the evaluation is called on None.
C16_BootstrapOnLastNextStatesWithMemory ==
    \A i \in 1..Len(trace) :
        trace[i].op = "bootstrap" =>
            IF memories # <<>>
            THEN /\ trace[i].next_states = rollout + 1
                 /\ trace[i].next_states = Last(memories[1]).next_states
            ELSE trace[i].next_states = None

C16_Witness ==
    /\ pc = "epoch"
    /\ memories # <<>>
    /\ rollout >= 2
    /\ \E i \in 1..Len(trace) : trace[i].op = "bootstrap" /\ trace[i].next_states = rollout + 1

\* ---------------------------------------------------------------------
\* C17 (as stated): the agent is in "eval" mode at every act and
\* record_transition call and after every post_interaction call, and in
\* "train" mode only between the start and the end of _update.
C17_TrainModeOnlyDuringUpdate ==
    /\ pc \in {"pre", "act", "record", "post"} => mode = "eval"
    /\ mode = "train" => pc \in UpdatePcs

\* ---------------------------------------------------------------------
\* C18: within one _update the state preprocessor is called with train=True
\* for exactly the minibatches processed in epoch 0 and with train=False for
\* every minibatch processed in a later epoch.
C18_PreprocessorTrainsInFirstEpochOnly ==
    \A i \in 1..Len(trace) :
        /\ trace[i].op = "state_preprocessor" =>
              /\ trace[i].train <=> trace[i].epoch = 0
              /\ i < Len(trace)
              /\ trace[i + 1].op = "update_policy"
              /\ trace[i + 1].epoch = trace[i].epoch
              /\ trace[i + 1].batch = trace[i].batch
        /\ trace[i].op = "update_policy" => (i > 1 /\ trace[i - 1].op = "state_preprocessor")

C18_Witness ==
    /\ pc = "update_end"
    /\ cfg.learning_epochs = 2
    /\ cfg.mini_batches = 2
    /\ Len(SelectSeq(trace, LAMBDA e : e.op = "state_preprocessor" /\ e.train)) = 1
    /\ Len(SelectSeq(trace, LAMBDA e : e.op = "state_preprocessor" /\ ~e.train)) = 2

\* ---------------------------------------------------------------------
\* C19: in _update the advantage estimator reads rewards, terminated flags
\* and the stored values before any tensor is written; then values and
\* returns are written in value-preprocessed (train mode) form and the
\* advantages as estimated; the minibatches are sampled once, after these
\* writes, and every epoch goes through the same minibatches.
PrepareOps == {"get_tensor", "compute_gae", "set_tensor", "sample_all"}

C19_EstimateThenWriteThenSample ==
    (pc \in UpdatePcs \ {"update"}) =>
        LET prep == SelectSeq(trace, LAMBDA e : e.op \in PrepareOps)
        IN /\ Len(prep) = 8
           /\ SubSeq(trace, 2, 9) = prep
           /\ \A k \in 1..3 : prep[k].op = "get_tensor" /\ prep[k].val.preprocessed = "no"
           /\ {prep[k].name : k \in 1..3} = {"values", "rewards", "terminated"}
           /\ prep[4].op = "compute_gae"
           /\ prep[4].rewards = [data |-> "rewards", preprocessed |-> "no"]
           /\ prep[4].dones = [data |-> "terminated", preprocessed |-> "no"]
           /\ prep[4].values = [data |-> "values", preprocessed |-> "no"]
           /\ \A k \in 5..7 : prep[k].op = "set_tensor"
           /\ {<<prep[k].name, prep[k].val>> : k \in 5..7} =
                 {<<"values", [data |-> "values", preprocessed |-> "train"]>>,
                  <<"returns", [data |-> "gae returns", preprocessed |-> "train"]>>,
                  <<"advantages", [data |-> "gae advantages", preprocessed |-> "no"]>>}
           /\ prep[8].op = "sample_all"
           /\ Len(sampled_batches) = prep[8].mini_batches
           /\ \A i \in 1..Len(trace) :
                 trace[i].op = "update_policy" =>
                    /\ trace[i].batch \in 1..Len(sampled_batches)
                    /\ trace[i].batch = sampled_batches[trace[i].batch]

C19_Witness ==
    /\ pc = "update_end"
    /\ cfg.learning_epochs = 2
    /\ cfg.mini_batches = 2
    /\ Count("update_policy") = 4
    /\ Count("sample_all") = 1

\* ---------------------------------------------------------------------
\* C20: the policy optimizer and the value optimizer are stepped equally
\* often: a minibatch whose KL divergence exceeds the threshold gets neither
\* step, every other processed minibatch gets the policy step and then the
\* value step.
C20_PolicyAndValueSteppedTogether ==
    /\ Count("policy_step") = Count("value_step")
    /\ \A i \in 1..Len(trace) :
          trace[i].op = "update_policy" =>
             IF Exceeds(i)
             THEN /\ ~Stepped("policy_step", trace[i].epoch, trace[i].batch)
                  /\ ~Stepped("value_step", trace[i].epoch, trace[i].batch)
             ELSE /\ i + 3 <= Len(trace)
                  /\ trace[i + 1].op = "policy_step"
                  /\ trace[i + 2].op = "update_value"
                  /\ trace[i + 3].op = "value_step"
                  /\ \A k \in 1..3 : /\ trace[i + k].epoch = trace[i].epoch
                                     /\ trace[i + k].batch = trace[i].batch

C20_Witness ==
    /\ pc = "update_end"
    /\ cfg.kl_threshold > 0
    /\ cfg.learning_epochs = 2
    /\ Count("update_policy") = 3
    /\ Count("policy_step") = 1
    /\ Count("value_step") = 1

\* ---------------------------------------------------------------------
\* C21: early stopping ends only the epoch in which it fires: when the
\* epochs loop of _update is over, exactly the epochs 0..learning_epochs-1
\* were started, in this order, and every one of them, the epochs after an
\* early-stopped one included, began at the first minibatch.
C21_EarlyStopEndsOnlyItsEpoch ==
    pc \in {"record_data", "update_end"} =>
        LET pol == Calls("update_policy")
        IN /\ {pol[i].epoch : i \in 1..Len(pol)} = 0..(cfg.learning_epochs - 1)
           /\ \A i, j \in 1..Len(pol) : i < j => pol[i].epoch <= pol[j].epoch
           /\ \A i \in 1..Len(pol) :
                 (i = 1 \/ pol[i - 1].epoch # pol[i].epoch) =>
                     pol[i].batch = sampled_batches[1]

C21_Witness ==
    /\ pc = "update_end"
    /\ cfg.learning_epochs = 2
    /\ cfg.mini_batches = 2
    /\ \E i \in 1..Len(trace) : Exceeds(i) /\ trace[i].epoch = 0 /\ trace[i].batch = 1
    /\ Stepped("value_step", 1, 1)
    /\ Stepped("value_step", 1, 2)

\* ---------------------------------------------------------------------
\* C22: with mini_batches >= 1, the list of KL divergences is non-empty
\* whenever the minibatch loop of an epoch is over, so every step of the
\* adaptive scheduler is given the mean of a non-empty list.
C22_SchedulerMeanOverNonEmptyList ==
    cfg.mini_batches >= 1 =>
        /\ pc = "epoch_end" => Len(kl_divergences) >= 1
        /\ \A i \in 1..Len(trace) :
              trace[i].op = "scheduler_step" => trace[i].kl[2] >= 1

C22_Witness ==
    /\ pc = "update_end"
    /\ scheduler = "KLAdaptiveRL"
    /\ cfg.mini_batches = 2
    /\ cfg.kl_threshold = 1
    /\ \E i \in 1..Len(trace) :
          /\ trace[i].op = "scheduler_step"
          /\ trace[i].kl = <<2, 1>>
          /\ EpochKLs(trace[i].epoch) = <<2>>

\* ---------------------------------------------------------------------
\* C23: two calls of _update_policy whose arguments differ only in the
\* log-probabilities, and agree in new_log_prob - old_log_prob for every
\* sample (as when the same constant is added to both), return the same
\* policy loss and the same KL divergence; and the KL divergence is 0
\* when new_log_prob = old_log_prob for every sample.
SameDifferences(a, b) ==
    /\ Len(a.next_log_prob) = Len(b.next_log_prob)
    /\ a.sampled_advantages = b.sampled_advantages
    /\ a.ratio_clip = b.ratio_clip
    /\ \A k \in 1..Len(a.next_log_prob) :
          a.next_log_prob[k] - a.sampled_log_prob[k]
              = b.next_log_prob[k] - b.sampled_log_prob[k]

C23_LossDependsOnLogProbDifference ==
    /\ \A i, j \in 1..Len(policy_calls) :
          SameDifferences(policy_calls[i].in, policy_calls[j].in) =>
              /\ policy_calls[i].out.policy_loss = policy_calls[j].out.policy_loss
              /\ policy_calls[i].out.kl_divergence = policy_calls[j].out.kl_divergence
    /\ \A i \in 1..Len(policy_calls) :
          policy_calls[i].in.next_log_prob = policy_calls[i].in.sampled_log_prob =>
              policy_calls[i].out.kl_divergence[1] = 0

C23_Witness ==
    /\ Len(policy_calls) = 2
    /\ policy_calls[1].in # policy_calls[2].in
    /\ SameDifferences(policy_calls[1].in, policy_calls[2].in)
    /\ policy_calls[1].in.next_log_prob # policy_calls[1].in.sampled_log_prob
    /\ policy_calls[2].out.kl_divergence[1] > 0
    /\ policy_calls[2].out.policy_loss[1] # 0

\* ---------------------------------------------------------------------
\* C24: with clip_predicted_values true and value_clip = 0, _update_value
\* computes the loss from the sampled values, whatever was predicted:
\* value_loss_scale * mean((return - old value)^2); with
\* clip_predicted_values false it computes it from the predictions.
SquaredErrors(returns, values) ==
    SumSeq([i \in 1..Len(returns) |-> (returns[i] - values[i]) * (returns[i] - values[i])])

C24_ValueClipZeroPinsToOldValue ==
    value_out # NoResult =>
        /\ (value_in.clip_predicted_values /\ value_in.value_clip = 0) =>
              /\ value_out.predicted_values = value_in.sampled_values
              /\ value_out.value_loss =
                    << value_in.value_loss_scale
                         * SquaredErrors(value_in.sampled_returns, value_in.sampled_values),
                       Len(value_in.sampled_values) >>
        /\ ~value_in.clip_predicted_values =>
              /\ value_out.predicted_values = value_in.predicted_values
              /\ value_out.value_loss =
                    << value_in.value_loss_scale
                         * SquaredErrors(value_in.sampled_returns, value_in.predicted_values),
                       Len(value_in.predicted_values) >>

C24_Witness ==
    /\ value_out # NoResult
    /\ value_in.clip_predicted_values
    /\ value_in.value_clip = 0
    /\ \A i \in 1..Len(value_in.predicted_values) :
          value_in.predicted_values[i] # value_in.sampled_values[i]
    /\ value_out.value_loss[1] > 0
    /\ value_out.value_loss[1] #
          value_in.value_loss_scale
            * SquaredErrors(value_in.sampled_returns, value_in.predicted_values)

====
